---- MODULE Spec2Model ----
(***************************************************************************)
(* The admin/donation contract of src/src/contract.rs as a state machine.  *)
(* The two storage cells ADMINS and DONATION_DENOM are the contract state;  *)
(* the host's bank ledger is kept next to them so that the effect of the    *)
(* BankMsg::Send messages a Donate returns can be observed as balances.    *)
(* One action per entry point call (instantiate, the three execute         *)
(* messages, the two queries); `last` records the instantiate or execute   *)
(* call just made, the state it was made in and what it returned, and      *)
(* `answer` what a query made after it returned.  `scenario` counts how    *)
(* far the calls made so far follow the sequence of test::greedy_admin,    *)
(* `retained` adds up the remainders of the donations carried out, and     *)
(* `left` keeps who has left and was not added again since.                *)
(***************************************************************************)
EXTENDS Integers, Sequences, FiniteSets, TLC

VARIABLES ADMINS, DONATION_DENOM, balances, last, answer, scenario, retained, left

vars == <<ADMINS, DONATION_DENOM, balances, last, answer, scenario, retained, left>>

----------------------------------------------------------------------------
(* Bounds of the model *)

\* longest admin list the model lets ADMINS grow to
MaxAdmins == 3
\* longest AddMembers payload
MaxPayload == 2
\* what the donor "user" owns of "eth" at the start (and 1 of every other denomination)
InitFunds == 5

----------------------------------------------------------------------------
(* Values *)

\* identities the host's addr_validate accepts, and one it rejects
ValidAddrs == {"owner1", "owner2", "user"}
InvalidRaw == {""}
RawAddrs == ValidAddrs \cup InvalidRaw

\* the contract's own account in the bank
Contract == "contract"
Accounts == ValidAddrs \cup {Contract}

Denoms == {"eth", "atom"}

\* sequences over S of length at most n
SeqsUpTo(S, n) == UNION {[1..k -> S] : k \in 0..n}

\* a storage cell: empty, or holding one value
Absent == <<>>
Present(v) == <<v>>

\* Result<T, E>
Ok(v) == [ok |-> TRUE, val |-> v, err |-> <<>>]
Err(e) == [ok |-> FALSE, val |-> <<>>, err |-> e]

\* cosmwasm_std::StdError raised by Item::load on an empty cell, and by the host's validation
NotFound == <<"Std", "NotFound">>
InvalidAddr == <<"Std", "GenericErr">>

Coin(d, a) == [denom |-> d, amount |-> a]

\* cosmwasm_std::coins(amount, denom): a one-coin vector
coins(a, d) == <<Coin(d, a)>>

\* Response::new()
EmptyResponse == [messages |-> <<>>, events |-> <<>>, attributes |-> <<>>]

\* u128::to_string / usize::to_string: decimal digits, most significant first
Digit(d) ==
    CASE d = 0 -> "0" [] d = 1 -> "1" [] d = 2 -> "2" [] d = 3 -> "3" [] d = 4 -> "4"
      [] d = 5 -> "5" [] d = 6 -> "6" [] d = 7 -> "7" [] d = 8 -> "8" [] d = 9 -> "9"

RECURSIVE to_string(_)
to_string(n) == IF n < 10 THEN Digit(n) ELSE to_string(n \div 10) \o Digit(n % 10)

----------------------------------------------------------------------------
(* Storage and host API *)

\* Item::load: the stored value, or StdError::NotFound
load(cell) == IF cell = Absent THEN Err(NotFound) ELSE Ok(cell[1])

\* deps.api.addr_validate: Addr(raw) for a raw string the host accepts, an error otherwise
addr_validate(raw) == IF raw \in ValidAddrs THEN Ok(raw) ELSE Err(InvalidAddr)

\* .into_iter().map(addr_validate).collect::<StdResult<Vec<_>>>(): the validated
\* list in input order, or the first error
RECURSIVE validate_all(_)
validate_all(raws) ==
    IF raws = <<>> THEN Ok(<<>>)
    ELSE LET h == addr_validate(Head(raws))
         IN IF ~h.ok THEN Err(h.err)
            ELSE LET t == validate_all(Tail(raws))
                 IN IF ~t.ok THEN Err(t.err) ELSE Ok(<<h.val>> \o t.val)

\* Vec::contains
contains(s, x) == \E i \in 1..Len(s) : s[i] = x

\* .into_iter().filter(|admin| *admin != sender).collect()
RECURSIVE filter_ne(_, _)
filter_ne(s, x) ==
    IF s = <<>> THEN <<>>
    ELSE IF Head(s) # x THEN <<Head(s)>> \o filter_ne(Tail(s), x)
    ELSE filter_ne(Tail(s), x)

----------------------------------------------------------------------------
(* Handlers.  A handler takes the store (the two cells), the MessageInfo and *)
(* its payload, and yields what it returns together with the store as its    *)
(* writes leave it.                                                          *)

Success(resp, store) == [kind |-> "Ok", err |-> <<>>, resp |-> resp, store |-> store]
Failure(e, store) == [kind |-> "Err", err |-> e, resp |-> EmptyResponse, store |-> store]
\* a panic inside the handler: the call returns no Result at all
Abort(store) == [kind |-> "Abort", err |-> <<>>, resp |-> EmptyResponse, store |-> store]

\* the list without the later repetitions of an entry
RECURSIVE dedup(_)
dedup(s) ==
    IF s = <<>> THEN <<>>
    ELSE LET front == dedup(SubSeq(s, 1, Len(s) - 1))
         IN IF contains(front, s[Len(s)]) THEN front ELSE Append(front, s[Len(s)])

\* Faulty variant of instantiate: repeated identities are stored once.
instantiate_dedup(store, info, msg) ==
    LET admins == validate_all(msg.admins)
    IN IF ~admins.ok THEN Failure(admins.err, store)
       ELSE Success(EmptyResponse,
                    [admins |-> Present(dedup(admins.val)),
                     denom |-> Present(msg.donation_denom)])

\* Faulty variant of instantiate: the denomination is saved before the identities are
\* validated, so a failed call has already written it.
instantiate_denom_first(store, info, msg) ==
    LET admins == validate_all(msg.admins)
        saved == [store EXCEPT !.denom = Present(msg.donation_denom)]
    IN IF ~admins.ok THEN Failure(admins.err, saved)
       ELSE Success(EmptyResponse, [saved EXCEPT !.admins = Present(admins.val)])

\* Faulty variant of instantiate: the denomination is fixed instead of taken from the
\* message.
instantiate_fixed_denom(store, info, msg) ==
    LET admins == validate_all(msg.admins)
    IN IF ~admins.ok THEN Failure(admins.err, store)
       ELSE Success(EmptyResponse,
                    [admins |-> Present(admins.val), denom |-> Present("eth")])

\* contract::instantiate
instantiate(store, info, msg) ==
    LET admins == validate_all(msg.admins)
    IN IF ~admins.ok THEN Failure(admins.err, store)
       ELSE Success(EmptyResponse,
                    [admins |-> Present(admins.val),
                     denom |-> Present(msg.donation_denom)])

\* query::greet
greet == Ok([message |-> "Hello World"])

\* query::admins_list
admins_list(store) ==
    LET admins == load(store.admins)
    IN IF ~admins.ok THEN Err(admins.err) ELSE Ok([admins |-> admins.val])

\* to_binary of GreetResp / AdminListResp: the field name and its value
to_binary(resp) ==
    IF "message" \in DOMAIN resp THEN <<"message", resp.message>>
    ELSE <<"admins", resp.admins>>

\* Faulty variant of query: the admin list is loaded before the message is looked at,
\* so every query fails on an empty store.
query_load_first(store, msg) ==
    LET r == admins_list(store)
    IN IF ~r.ok THEN Err(r.err)
       ELSE IF msg.type = "Greet" THEN Ok(to_binary(greet.val))
       ELSE Ok(to_binary(r.val))

\* contract::query
query(store, msg) ==
    IF msg.type = "Greet"
    THEN (IF ~greet.ok THEN Err(greet.err) ELSE Ok(to_binary(greet.val)))
    ELSE LET r == admins_list(store)
         IN IF ~r.ok THEN Err(r.err) ELSE Ok(to_binary(r.val))

\* Event::new("admin_added").add_attribute("addr", admin)
admin_added(admin) == [ty |-> "admin_added", attributes |-> << <<"addr", admin>> >>]

\* Faulty variant of add_members: the payload is validated before the caller is
\* authorized, so a non-administrator's bad payload yields the validation error.
add_members_validate_first(store, info, admins) ==
    LET curr_admins == load(store.admins)
        validated == validate_all(admins)
    IN IF ~curr_admins.ok THEN Failure(curr_admins.err, store)
       ELSE IF ~validated.ok THEN Failure(validated.err, store)
       ELSE IF ~contains(curr_admins.val, info.sender)
       THEN Failure(<<"Unauthorized", info.sender>>, store)
       ELSE Success([messages |-> <<>>,
                     events |-> [i \in 1..Len(admins) |-> admin_added(admins[i])],
                     attributes |-> << <<"action", "add_members">>,
                                       <<"added_count", to_string(Len(admins))>> >>],
                    [store EXCEPT !.admins = Present(curr_admins.val \o validated.val)])

\* Faulty variant of add_members: added_count is taken after the append, so it counts
\* the whole list instead of the payload.
add_members_count_total(store, info, admins) ==
    LET curr_admins == load(store.admins)
        validated == validate_all(admins)
    IN IF ~curr_admins.ok THEN Failure(curr_admins.err, store)
       ELSE IF ~contains(curr_admins.val, info.sender)
       THEN Failure(<<"Unauthorized", info.sender>>, store)
       ELSE IF ~validated.ok THEN Failure(validated.err, store)
       ELSE LET all == curr_admins.val \o validated.val
            IN Success([messages |-> <<>>,
                        events |-> [i \in 1..Len(admins) |-> admin_added(admins[i])],
                        attributes |-> << <<"action", "add_members">>,
                                          <<"added_count", to_string(Len(all))>> >>],
                       [store EXCEPT !.admins = Present(all)])

\* Variant of add_members with a uniqueness check: identities already in the list are
\* not appended again.
add_members_dedup(store, info, admins) ==
    LET curr_admins == load(store.admins)
        validated == validate_all(admins)
    IN IF ~curr_admins.ok THEN Failure(curr_admins.err, store)
       ELSE IF ~contains(curr_admins.val, info.sender)
       THEN Failure(<<"Unauthorized", info.sender>>, store)
       ELSE IF ~validated.ok THEN Failure(validated.err, store)
       ELSE Success([messages |-> <<>>,
                     events |-> [i \in 1..Len(admins) |-> admin_added(admins[i])],
                     attributes |-> << <<"action", "add_members">>,
                                       <<"added_count", to_string(Len(admins))>> >>],
                    [store EXCEPT !.admins = Present(dedup(curr_admins.val \o validated.val))])

\* the identities of the list that the host accepts, in order
RECURSIVE valid_only(_)
valid_only(raws) ==
    IF raws = <<>> THEN <<>>
    ELSE IF addr_validate(Head(raws)).ok
    THEN <<addr_validate(Head(raws)).val>> \o valid_only(Tail(raws))
    ELSE valid_only(Tail(raws))

\* Faulty variant of add_members: identities that fail validation are skipped and the
\* others appended.
add_members_skip_invalid(store, info, admins) ==
    LET curr_admins == load(store.admins)
    IN IF ~curr_admins.ok THEN Failure(curr_admins.err, store)
       ELSE IF ~contains(curr_admins.val, info.sender)
       THEN Failure(<<"Unauthorized", info.sender>>, store)
       ELSE Success([messages |-> <<>>,
                     events |-> [i \in 1..Len(admins) |-> admin_added(admins[i])],
                     attributes |-> << <<"action", "add_members">>,
                                       <<"added_count", to_string(Len(admins))>> >>],
                    [store EXCEPT !.admins = Present(curr_admins.val \o valid_only(admins))])

\* Faulty variant of add_members: the payload is appended as given, without validation.
add_members_unvalidated(store, info, admins) ==
    LET curr_admins == load(store.admins)
    IN IF ~curr_admins.ok THEN Failure(curr_admins.err, store)
       ELSE IF ~contains(curr_admins.val, info.sender)
       THEN Failure(<<"Unauthorized", info.sender>>, store)
       ELSE Success([messages |-> <<>>,
                     events |-> [i \in 1..Len(admins) |-> admin_added(admins[i])],
                     attributes |-> << <<"action", "add_members">>,
                                       <<"added_count", to_string(Len(admins))>> >>],
                    [store EXCEPT !.admins = Present(curr_admins.val \o admins)])

\* Faulty variant of add_members: on an empty list the membership test is skipped, so
\* anyone may add the first administrators.
add_members_bootstrap(store, info, admins) ==
    LET curr_admins == load(store.admins)
        validated == validate_all(admins)
    IN IF ~curr_admins.ok THEN Failure(curr_admins.err, store)
       ELSE IF curr_admins.val # <<>> /\ ~contains(curr_admins.val, info.sender)
       THEN Failure(<<"Unauthorized", info.sender>>, store)
       ELSE IF ~validated.ok THEN Failure(validated.err, store)
       ELSE Success([messages |-> <<>>,
                     events |-> [i \in 1..Len(admins) |-> admin_added(admins[i])],
                     attributes |-> << <<"action", "add_members">>,
                                       <<"added_count", to_string(Len(admins))>> >>],
                    [store EXCEPT !.admins = Present(curr_admins.val \o validated.val)])

\* exec::add_members
add_members(store, info, admins) ==
    LET curr_admins == load(store.admins)
    IN IF ~curr_admins.ok THEN Failure(curr_admins.err, store)
       ELSE IF ~contains(curr_admins.val, info.sender)
       THEN Failure(<<"Unauthorized", info.sender>>, store)
       ELSE LET events == [i \in 1..Len(admins) |-> admin_added(admins[i])]
                resp == [messages |-> <<>>,
                         events |-> events,
                         attributes |-> << <<"action", "add_members">>,
                                           <<"added_count", to_string(Len(admins))>> >>]
                validated == validate_all(admins)
            IN IF ~validated.ok THEN Failure(validated.err, store)
               ELSE Success(resp,
                            [store EXCEPT !.admins = Present(curr_admins.val \o validated.val)])

\* the list without the first entry equal to x
RECURSIVE remove_first(_, _)
remove_first(s, x) ==
    IF s = <<>> THEN <<>>
    ELSE IF Head(s) = x THEN Tail(s)
    ELSE <<Head(s)>> \o remove_first(Tail(s), x)

\* Faulty variant of leave: only the first occurrence of the caller is removed.
leave_first_only(store, info) ==
    LET admins == load(store.admins)
    IN IF ~admins.ok THEN Failure(admins.err, store)
       ELSE Success(EmptyResponse,
                    [store EXCEPT !.admins = Present(remove_first(admins.val, info.sender))])

RECURSIVE remove_last(_, _)
remove_last(s, x) ==
    IF s = <<>> THEN <<>>
    ELSE IF s[Len(s)] = x THEN SubSeq(s, 1, Len(s) - 1)
    ELSE remove_last(SubSeq(s, 1, Len(s) - 1), x) \o <<s[Len(s)]>>

\* Faulty variant of leave: only the last occurrence of the caller is removed.
leave_last_only(store, info) ==
    LET admins == load(store.admins)
    IN IF ~admins.ok THEN Failure(admins.err, store)
       ELSE Success(EmptyResponse,
                    [store EXCEPT !.admins = Present(remove_last(admins.val, info.sender))])

\* Faulty variant of leave: when the last entry goes, the cell is removed instead of
\* being saved as the empty list.
leave_remove_when_empty(store, info) ==
    LET admins == load(store.admins)
    IN IF ~admins.ok THEN Failure(admins.err, store)
       ELSE LET rest == filter_ne(admins.val, info.sender)
            IN Success(EmptyResponse,
                       [store EXCEPT !.admins = IF rest = <<>> THEN Absent ELSE Present(rest)])

\* Faulty variant of leave: the filter is inverted, so the entries equal to the caller
\* are the ones kept.
leave_inverted_filter(store, info) ==
    LET admins == load(store.admins)
    IN IF ~admins.ok THEN Failure(admins.err, store)
       ELSE Success(EmptyResponse,
                    [store EXCEPT !.admins =
                        Present(SelectSeq(admins.val, LAMBDA admin : admin = info.sender))])

\* exec::leave
leave(store, info) ==
    LET admins == load(store.admins)
    IN IF ~admins.ok THEN Failure(admins.err, store)
       ELSE Success(EmptyResponse,
                    [store EXCEPT !.admins = Present(filter_ne(admins.val, info.sender))])

\* A laxer payment lookup than must_pay: the first non-zero coin of the given denomination is
\* taken, whatever else is attached.
must_pay_first_match(info, denom) ==
    LET hits == {i \in 1..Len(info.funds) :
                    info.funds[i].denom = denom /\ info.funds[i].amount > 0}
    IN IF Len(info.funds) = 0 THEN Err(<<"Payment", "NoFunds">>)
       ELSE IF hits = {} THEN Err(<<"Payment", "MissingDenom", denom>>)
       ELSE Ok(info.funds[CHOOSE i \in hits : \A j \in hits : i <= j].amount)

\* cw_utils::must_pay(&info, &denom): the amount of the single coin attached, which
\* must be non-zero and of the given denomination
must_pay(info, denom) ==
    IF Len(info.funds) = 0 THEN Err(<<"Payment", "NoFunds">>)
    ELSE IF Len(info.funds) > 1 THEN Err(<<"Payment", "MultipleDenoms">>)
    ELSE IF info.funds[1].amount = 0 THEN Err(<<"Payment", "NoFunds">>)
    ELSE IF info.funds[1].denom # denom THEN Err(<<"Payment", "MissingDenom", denom>>)
    ELSE Ok(info.funds[1].amount)

\* BankMsg::Send { to_address, amount }
BankSend(to, amount) == [to_address |-> to, amount |-> amount]

\* Faulty variant of donate: the payment is looked up with must_pay_first_match, so
\* coins attached next to the wanted one are let through.
donate_first_match(store, info) ==
    LET denom == load(store.denom)
        admins == load(store.admins)
    IN IF ~denom.ok THEN Failure(denom.err, store)
       ELSE IF ~admins.ok THEN Failure(admins.err, store)
       ELSE LET donation == must_pay_first_match(info, denom.val)
            IN IF ~donation.ok THEN Failure(donation.err, store)
               ELSE IF Len(admins.val) = 0 THEN Abort(store)
               ELSE LET donation_per_admin == donation.val \div Len(admins.val)
                    IN Success([messages |-> [i \in 1..Len(admins.val) |->
                                                BankSend(admins.val[i],
                                                         coins(donation_per_admin, denom.val))],
                                events |-> <<>>,
                                attributes |->
                                    << <<"action", "donate">>,
                                       <<"amount", to_string(donation.val)>>,
                                       <<"per_admin", to_string(donation_per_admin)>> >>],
                               store)

\* Faulty variant of donate: the remainder is added to the first entry's payment.
donate_remainder_to_first(store, info) ==
    LET denom == load(store.denom)
        admins == load(store.admins)
    IN IF ~denom.ok THEN Failure(denom.err, store)
       ELSE IF ~admins.ok THEN Failure(admins.err, store)
       ELSE LET donation == must_pay(info, denom.val)
            IN IF ~donation.ok THEN Failure(donation.err, store)
               ELSE IF Len(admins.val) = 0 THEN Abort(store)
               ELSE LET donation_per_admin == donation.val \div Len(admins.val)
                        rest == donation.val - donation_per_admin * Len(admins.val)
                    IN Success([messages |-> [i \in 1..Len(admins.val) |->
                                                BankSend(admins.val[i],
                                                         coins(IF i = 1
                                                               THEN donation_per_admin + rest
                                                               ELSE donation_per_admin,
                                                               denom.val))],
                                events |-> <<>>,
                                attributes |->
                                    << <<"action", "donate">>,
                                       <<"amount", to_string(donation.val)>>,
                                       <<"per_admin", to_string(donation_per_admin)>> >>],
                               store)

\* Faulty variant of donate: the share is rounded up instead of down.
donate_round_up(store, info) ==
    LET denom == load(store.denom)
        admins == load(store.admins)
    IN IF ~denom.ok THEN Failure(denom.err, store)
       ELSE IF ~admins.ok THEN Failure(admins.err, store)
       ELSE LET donation == must_pay(info, denom.val)
            IN IF ~donation.ok THEN Failure(donation.err, store)
               ELSE IF Len(admins.val) = 0 THEN Abort(store)
               ELSE LET donation_per_admin ==
                            (donation.val + Len(admins.val) - 1) \div Len(admins.val)
                    IN Success([messages |-> [i \in 1..Len(admins.val) |->
                                                BankSend(admins.val[i],
                                                         coins(donation_per_admin, denom.val))],
                                events |-> <<>>,
                                attributes |->
                                    << <<"action", "donate">>,
                                       <<"amount", to_string(donation.val)>>,
                                       <<"per_admin", to_string(donation_per_admin)>> >>],
                               store)

\* Faulty variant of donate: after paying, the list is saved with repeated identities
\* stored once.
donate_dedup_save(store, info) ==
    LET denom == load(store.denom)
        admins == load(store.admins)
    IN IF ~denom.ok THEN Failure(denom.err, store)
       ELSE IF ~admins.ok THEN Failure(admins.err, store)
       ELSE LET donation == must_pay(info, denom.val)
            IN IF ~donation.ok THEN Failure(donation.err, store)
               ELSE IF Len(admins.val) = 0 THEN Abort(store)
               ELSE LET donation_per_admin == donation.val \div Len(admins.val)
                        messages == [i \in 1..Len(admins.val) |->
                                        BankSend(admins.val[i],
                                                 coins(donation_per_admin, denom.val))]
                    IN Success([messages |-> messages,
                                events |-> <<>>,
                                attributes |->
                                    << <<"action", "donate">>,
                                       <<"amount", to_string(donation.val)>>,
                                       <<"per_admin", to_string(donation_per_admin)>> >>],
                               [store EXCEPT !.admins = Present(dedup(admins.val))])

\* exec::donate
donate(store, info) ==
    LET denom == load(store.denom)
        admins == load(store.admins)
    IN IF ~denom.ok THEN Failure(denom.err, store)
       ELSE IF ~admins.ok THEN Failure(admins.err, store)
       ELSE LET donation == must_pay(info, denom.val)
            IN IF ~donation.ok THEN Failure(donation.err, store)
               ELSE IF Len(admins.val) = 0 THEN Abort(store)  \* u128 division by zero panics
               ELSE LET donation_per_admin == donation.val \div Len(admins.val)
                        messages == [i \in 1..Len(admins.val) |->
                                        BankSend(admins.val[i],
                                                 coins(donation_per_admin, denom.val))]
                    IN Success([messages |-> messages,
                                events |-> <<>>,
                                attributes |->
                                    << <<"action", "donate">>,
                                       <<"amount", to_string(donation.val)>>,
                                       <<"per_admin", to_string(donation_per_admin)>> >>],
                               store)

\* contract::execute
execute(store, info, msg) ==
    CASE msg.type = "AddMembers" -> add_members(store, info, msg.admins)
      [] msg.type = "Leave" -> leave(store, info)
      [] msg.type = "Donate" -> donate(store, info)

----------------------------------------------------------------------------
(* The host around a call: it moves the attached funds to the contract,     *)
(* runs the handler, and on Ok carries out the returned bank messages; a     *)
(* failure anywhere discards every write of the call.                        *)

\* one coin moved between two accounts; refused when the payer lacks it
move(bal, from, to, coin) ==
    IF bal[from][coin.denom] < coin.amount THEN [ok |-> FALSE, bal |-> bal]
    ELSE IF from = to THEN [ok |-> TRUE, bal |-> bal]
    ELSE [ok |-> TRUE,
          bal |-> [bal EXCEPT ![from][coin.denom] = @ - coin.amount,
                              ![to][coin.denom] = @ + coin.amount]]

\* a vector of coins moved between two accounts, coin by coin
RECURSIVE move_all(_, _, _, _)
move_all(bal, from, to, amount) ==
    IF amount = <<>> THEN [ok |-> TRUE, bal |-> bal]
    ELSE LET r == move(bal, from, to, Head(amount))
         IN IF ~r.ok THEN r ELSE move_all(r.bal, from, to, Tail(amount))

\* whether the host's bank refuses the message for carrying a zero-amount coin;
\* zero_ok is the host's policy on such sends
refused(m, zero_ok) == ~zero_ok /\ \E i \in 1..Len(m.amount) : m.amount[i].amount = 0

\* the policies a host may have on zero-amount sends; they differ only on a response
\* that holds one
HostPolicies(messages) ==
    IF \E i \in 1..Len(messages) : refused(messages[i], FALSE) THEN BOOLEAN ELSE {TRUE}

\* the response's BankMsg::Send messages carried out in order, paid by the contract
RECURSIVE dispatch(_, _, _)
dispatch(bal, messages, zero_ok) ==
    IF messages = <<>> THEN [ok |-> TRUE, bal |-> bal]
    ELSE LET m == Head(messages)
             r == move_all(bal, Contract, m.to_address, m.amount)
         IN IF refused(m, zero_ok) \/ ~r.ok THEN [ok |-> FALSE, bal |-> bal]
            ELSE dispatch(r.bal, Tail(messages), zero_ok)

Store == [admins |-> ADMINS, denom |-> DONATION_DENOM]

Pre == [admins |-> ADMINS, denom |-> DONATION_DENOM, balances |-> balances]

Msg(type, admins, denom) == [type |-> type, admins |-> admins, donation_denom |-> denom]

\* the record of a call: its input, the state before it, what the handler returned,
\* the store as the handler's writes left it, and whether the host kept the call's effects
Call(entry, msg, sender, funds, out, committed) ==
    [entry |-> entry, msg |-> msg, sender |-> sender, funds |-> funds, pre |-> Pre,
     kind |-> out.kind, err |-> out.err, resp |-> out.resp, store |-> out.store,
     committed |-> committed]

\* no query made
NoAnswer == [type |-> "none", ok |-> TRUE, val |-> <<>>, err |-> <<>>]

\* payments the host can attach for the sender: nothing, one coin the sender owns,
\* or two coins of different denominations
FundsOf(sender) ==
    {<<>>}
    \cup UNION {{coins(a, d) : a \in 0..balances[sender][d]} : d \in Denoms}
    \cup {<<Coin(d[1], a[1]), Coin(d[2], a[2])>> :
            d \in {dd \in Denoms \X Denoms : dd[1] # dd[2]},
            a \in {0, 1} \X {0, 1}}

\* the host delivers a call only when the sender owns what it attaches
Owns(sender, funds) == \A i \in 1..Len(funds) : funds[i].amount <= balances[sender][funds[i].denom]

InitBalances ==
    [a \in Accounts |->
        [d \in Denoms |-> IF a # "user" THEN 0 ELSE IF d = "eth" THEN InitFunds ELSE 1]]

\* no call in progress
Idle ==
    [entry |-> "none", msg |-> Msg("none", <<>>, ""), sender |-> "", funds |-> <<>>,
     pre |-> [admins |-> Absent, denom |-> Absent, balances |-> InitBalances],
     kind |-> "Ok", err |-> <<>>, resp |-> EmptyResponse,
     store |-> [admins |-> Absent, denom |-> Absent], committed |-> FALSE]

\* The calls of test::greedy_admin, in order: instantiate with [owner1, owner2];
\* owner1 executes AddMembers([owner1]); "user" executes Donate with 4 of the
\* configured denomination.  The step the call `c` takes from position n (0 when the
\* calls so far are not that sequence).
greedy_step(n, c) ==
    IF /\ c.entry = "instantiate" /\ c.committed
       /\ c.msg.admins = <<"owner1", "owner2">>
    THEN 1
    ELSE IF /\ n = 1 /\ c.entry = "execute" /\ c.committed
            /\ c.msg.type = "AddMembers" /\ c.sender = "owner1" /\ c.funds = <<>>
            /\ c.msg.admins = <<"owner1">>
    THEN 2
    ELSE IF /\ n = 2 /\ c.entry = "execute" /\ c.committed
            /\ c.msg.type = "Donate" /\ c.sender = "user"
            /\ c.funds = coins(4, c.pre.denom[1])
    THEN 3
    ELSE 0

\* The remainders of the donations carried out so far, per denomination, after the
\* call `c`: a Donate of A shared among K entries leaves A mod K undistributed.
retained_after(r, c) ==
    IF c.entry = "execute" /\ c.msg.type = "Donate" /\ c.committed
    THEN [r EXCEPT ![c.funds[1].denom] = @ + (c.funds[1].amount % Len(c.pre.admins[1]))]
    ELSE r

\* The identities that made a Leave and were in no AddMembers payload since, after
\* the call `c`: a Leave carried out records its caller, an AddMembers carried out
\* clears the identities of its payload.
left_after(l, c) ==
    IF c.entry = "execute" /\ c.committed /\ c.msg.type = "Leave"
    THEN l \cup {c.sender}
    ELSE IF c.entry = "execute" /\ c.committed /\ c.msg.type = "AddMembers"
    THEN {a \in l : ~contains(c.msg.admins, a)}
    ELSE l

Init ==
    /\ ADMINS = Absent
    /\ DONATION_DENOM = Absent
    /\ balances = InitBalances
    /\ last = Idle
    /\ answer = NoAnswer
    /\ scenario = 0
    /\ retained = [d \in Denoms |-> 0]
    /\ left = {}

\* the host creates the contract: instantiate runs once, on the empty store
Instantiate(sender, admins, denom) ==
    /\ last = Idle /\ answer = NoAnswer
    /\ ADMINS = Absent /\ DONATION_DENOM = Absent
    /\ LET msg == Msg("Instantiate", admins, denom)
           out == instantiate(Store, [sender |-> sender, funds |-> <<>>], msg)
           committed == out.kind = "Ok"
       IN /\ ADMINS' = IF committed THEN out.store.admins ELSE ADMINS
          /\ DONATION_DENOM' = IF committed THEN out.store.denom ELSE DONATION_DENOM
          /\ last' = Call("instantiate", msg, sender, <<>>, out, committed)
    /\ scenario' = greedy_step(scenario, last')
    /\ UNCHANGED <<balances, answer, retained, left>>

\* one execute call delivered by the host
Execute(sender, funds, msg) ==
    /\ last = Idle /\ answer = NoAnswer
    /\ Owns(sender, funds)
    /\ LET info == [sender |-> sender, funds |-> funds]
           paid == move_all(balances, sender, Contract, funds)
           out == execute(Store, info, msg)
       IN \E zero_ok \in HostPolicies(out.resp.messages) :
        LET sent == dispatch(paid.bal, out.resp.messages, zero_ok)
            committed == out.kind = "Ok" /\ sent.ok
        IN /\ ADMINS' = IF committed THEN out.store.admins ELSE ADMINS
           /\ DONATION_DENOM' = IF committed THEN out.store.denom ELSE DONATION_DENOM
           /\ balances' = IF committed THEN sent.bal ELSE balances
           /\ last' = Call("execute", msg, sender, funds, out, committed)
           /\ scenario' = greedy_step(scenario, last')
           /\ retained' = retained_after(retained, last')
           /\ left' = left_after(left, last')
           /\ UNCHANGED answer

AddMembers(sender, admins) ==
    /\ ADMINS # Absent => Len(ADMINS[1]) + Len(admins) <= MaxAdmins
    /\ Execute(sender, <<>>, Msg("AddMembers", admins, ""))

Leave(sender) == Execute(sender, <<>>, Msg("Leave", <<>>, ""))

Donate(sender, funds) == Execute(sender, funds, Msg("Donate", <<>>, ""))

\* one query call: read-only, on the state the last call left
Query(type) ==
    LET r == query(Store, Msg(type, <<>>, ""))
    IN /\ answer.type # type
       /\ answer' = [type |-> type, ok |-> r.ok, val |-> r.val, err |-> r.err]
       /\ UNCHANGED <<ADMINS, DONATION_DENOM, balances, last, scenario, retained, left>>

Greet == Query("Greet")

AdminsList == Query("AdminsList")

\* the host hands the result to the caller: the call is over, and the next may start
Return ==
    /\ last # Idle \/ answer # NoAnswer
    /\ last' = Idle
    /\ answer' = NoAnswer
    /\ UNCHANGED <<ADMINS, DONATION_DENOM, balances, scenario, retained, left>>

Next ==
    \/ /\ last = Idle /\ answer = NoAnswer /\ ADMINS = Absent
       /\ \E sender \in ValidAddrs, admins \in SeqsUpTo(RawAddrs, MaxAdmins), denom \in Denoms :
             Instantiate(sender, admins, denom)
    \/ /\ last = Idle /\ answer = NoAnswer
       /\ \E sender \in ValidAddrs, admins \in SeqsUpTo(RawAddrs, MaxPayload) :
             AddMembers(sender, admins)
    \/ /\ last = Idle /\ answer = NoAnswer
       /\ \E sender \in ValidAddrs : Leave(sender)
    \/ /\ last = Idle /\ answer = NoAnswer
       /\ \E sender \in ValidAddrs : \E funds \in FundsOf(sender) : Donate(sender, funds)
    \/ Greet
    \/ AdminsList
    \/ Return

Spec == Init /\ [][Next]_vars

----------------------------------------------------------------------------
(* Properties.  `last` is read in the state a call leaves: last.pre is the   *)
(* state the call was made in, the state variables are the state after it.   *)

IsExecute(type) == last.entry = "execute" /\ last.msg.type = type

\* the call was made on an instantiated contract
Instantiated == last.pre.admins # Absent /\ last.pre.denom # Absent

PreAdmins == last.pre.admins[1]
PreDenom == last.pre.denom[1]

Range(s) == {s[i] : i \in 1..Len(s)}

\* the decimal numerals of the small numbers the properties name
Numeral(n) == <<"0", "1", "2", "3", "4", "5", "6", "7", "8", "9">>[n + 1]

\* what the call added to an account's balance of a denomination
Gain(a, d) == balances[a][d] - last.pre.balances[a][d]

\* the amounts the response's bank messages carry in a denomination, added up
RECURSIVE SumSent(_, _)
SumSent(messages, d) ==
    IF messages = <<>> THEN 0
    ELSE (IF Head(messages).amount[1].denom = d THEN Head(messages).amount[1].amount ELSE 0)
         + SumSent(Tail(messages), d)

\* C1: AddMembers by a caller that is not in AdminSet fails with Unauthorized naming
\* that caller, whatever the payload and also when AdminSet is empty, and leaves
\* AdminSet as it was.
C1_Unauthorized ==
    (IsExecute("AddMembers") /\ Instantiated /\ last.sender \notin Range(PreAdmins))
    => /\ last.kind = "Err"
       /\ last.err = <<"Unauthorized", last.sender>>
       /\ ~last.committed
       /\ last.store.admins = last.pre.admins
       /\ ADMINS = last.pre.admins

\* C1 witness: a non-administrator's AddMembers with an invalid identity in the
\* payload, on an empty AdminSet, was refused as Unauthorized.
C1_Witness ==
    /\ IsExecute("AddMembers") /\ Instantiated
    /\ PreAdmins = <<>>
    /\ \E i \in 1..Len(last.msg.admins) : last.msg.admins[i] \notin ValidAddrs
    /\ last.err = <<"Unauthorized", last.sender>>

\* C2: AddMembers by a current administrator with N valid identities succeeds; AdminSet
\* becomes the previous list followed by the N identities in input order; the response
\* has N admin_added events, one per input identity in order, and the attributes
\* action = add_members and added_count = N.
C2_AddMembers ==
    (/\ IsExecute("AddMembers") /\ Instantiated
     /\ last.sender \in Range(PreAdmins)
     /\ Range(last.msg.admins) \subseteq ValidAddrs)
    => LET N == Len(last.msg.admins)
           K == Len(PreAdmins)
       IN /\ last.kind = "Ok" /\ last.committed
          /\ ADMINS # Absent
          /\ Len(ADMINS[1]) = K + N
          /\ \A i \in 1..K : ADMINS[1][i] = PreAdmins[i]
          /\ \A i \in 1..N : ADMINS[1][K + i] = last.msg.admins[i]
          /\ Len(last.resp.events) = N
          /\ \A i \in 1..N :
                /\ last.resp.events[i].ty = "admin_added"
                /\ last.resp.events[i].attributes = << <<"addr", last.msg.admins[i]>> >>
          /\ last.resp.attributes =
                << <<"action", "add_members">>, <<"added_count", Numeral(N)>> >>
          /\ last.resp.messages = <<>>

\* C2 witness: an administrator added two identities, one of them already present.
C2_Witness ==
    /\ IsExecute("AddMembers") /\ Instantiated
    /\ last.kind = "Ok"
    /\ Len(last.msg.admins) = 2
    /\ last.msg.admins[1] \in Range(PreAdmins)
    /\ last.msg.admins[1] # last.msg.admins[2]
    /\ Len(ADMINS[1]) = Len(PreAdmins) + 2

\* C3: a successful Donate of A in the configured denomination with K >= 1 entries in
\* AdminSet issues K payments, one per entry in stored order, each of floor(A/K) in that
\* denomination; they add up to K * floor(A/K) <= A, and the remainder, which is less
\* than K, goes to no administrator: it stays with the contract.
C3_Donate ==
    (IsExecute("Donate") /\ last.kind = "Ok")
    => LET A == last.funds[1].amount
           K == Len(PreAdmins)
           msgs == last.resp.messages
       IN /\ Instantiated /\ K >= 1
          /\ last.funds = <<Coin(PreDenom, A)>>
          /\ Len(msgs) = K
          /\ \E q \in 0..A :
                /\ q * K <= A /\ A < (q + 1) * K
                /\ \A i \in 1..K : msgs[i] = [to_address |-> PreAdmins[i],
                                              amount |-> <<Coin(PreDenom, q)>>]
                /\ SumSent(msgs, PreDenom) = K * q
                /\ A - K * q < K
                /\ last.committed =>
                      /\ Gain(Contract, PreDenom) = A - K * q
                      /\ \A d \in Denoms \ {PreDenom}, a \in Accounts : Gain(a, d) = 0
          /\ SumSent(msgs, PreDenom) <= A

\* C3 witness: a Donate that leaves a remainder was carried out for an AdminSet with a
\* repeated entry.
C3_Witness ==
    /\ IsExecute("Donate") /\ last.kind = "Ok" /\ last.committed
    /\ Len(PreAdmins) = 3
    /\ Cardinality(Range(PreAdmins)) = 2
    /\ last.funds[1].amount = 5
    /\ Gain(Contract, PreDenom) = 2

\* C4: Donate fails with the payment error and issues no payment when the attached
\* payment is missing, has zero amount, is in another denomination than the configured
\* one, or holds more than one denomination; AdminSet and DonationDenom stay as they were.
C4_BadPayment ==
    (/\ IsExecute("Donate") /\ Instantiated
     /\ \/ last.funds = <<>>
        \/ Len(last.funds) = 1 /\ last.funds[1].amount = 0
        \/ Len(last.funds) = 1 /\ last.funds[1].denom # PreDenom
        \/ Len(last.funds) > 1)
    => /\ last.kind = "Err"
       /\ last.err[1] = "Payment"
       /\ last.resp.messages = <<>>
       /\ ~last.committed
       /\ last.store = [admins |-> last.pre.admins, denom |-> last.pre.denom]
       /\ ADMINS = last.pre.admins
       /\ DONATION_DENOM = last.pre.denom
       /\ balances = last.pre.balances

\* C4 witness: a Donate with two non-zero coins, one of them in the configured
\* denomination, was refused with the payment error.
C4_Witness ==
    /\ IsExecute("Donate") /\ Instantiated
    /\ Len(last.funds) = 2
    /\ \A i \in 1..2 : last.funds[i].amount > 0
    /\ \E i \in 1..2 : last.funds[i].denom = PreDenom
    /\ Len(PreAdmins) > 0
    /\ last.kind = "Err" /\ last.err[1] = "Payment"

\* the entries of s other than x, in their order in s
Without(s, x) == SelectSeq(s, LAMBDA e : e # x)

\* C5: Leave by any caller c on an instantiated contract succeeds with an empty response,
\* also when c is not in AdminSet, and AdminSet becomes the previous list with every
\* entry equal to c removed and the others in their previous order.
C5_Leave ==
    (IsExecute("Leave") /\ Instantiated)
    => /\ last.kind = "Ok" /\ last.committed
       /\ last.resp = EmptyResponse
       /\ ADMINS = Present(Without(PreAdmins, last.sender))
       /\ last.sender \notin Range(ADMINS[1])
       /\ DONATION_DENOM = last.pre.denom
       /\ balances = last.pre.balances

\* C5 witness: a caller that was in AdminSet twice left, and another entry stayed.
C5_Witness ==
    /\ IsExecute("Leave") /\ Instantiated
    /\ Cardinality({i \in 1..Len(PreAdmins) : PreAdmins[i] = last.sender}) = 2
    /\ Len(ADMINS[1]) = 1
    /\ last.kind = "Ok"

\* C6: instantiate with a list of valid identities succeeds, and the AdminsList query
\* made right after it returns that list: same elements, same order, repetitions kept.
C6_InstantiateThenList ==
    (last.entry = "instantiate" /\ Range(last.msg.admins) \subseteq ValidAddrs)
    => /\ last.kind = "Ok" /\ last.committed
       /\ answer.type = "AdminsList"
            => answer.ok /\ answer.val = <<"admins", last.msg.admins>>

\* C6 witness: AdminsList was asked right after an instantiate with a repeated identity.
C6_Witness ==
    /\ last.entry = "instantiate" /\ last.kind = "Ok"
    /\ answer.type = "AdminsList" /\ answer.ok
    /\ Len(last.msg.admins) = 3
    /\ last.msg.admins[1] = last.msg.admins[3]
    /\ last.msg.admins[1] # last.msg.admins[2]

\* C7: an administrator that re-adds itself gains no extra share: after instantiate
\* with [owner1, owner2], owner1's AddMembers([owner1]) and a Donate of 4, owner1 has 2,
\* owner2 has 2 and the contract has nothing.
C7_NoExtraShare ==
    scenario = 3
    => /\ balances["owner1"][DONATION_DENOM[1]] = 2
       /\ balances["owner2"][DONATION_DENOM[1]] = 2
       /\ balances[Contract][DONATION_DENOM[1]] = 0

C9_ExecuteReturns ==
    (last.entry = "execute" /\ Instantiated) => last.kind \in {"Ok", "Err"}

\* C10: AddMembers by a current administrator with a payload in which some identity
\* fails validation fails as a whole with the validation error; AdminSet is unchanged,
\* so no identity of the payload is appended.
C10_InvalidPayload ==
    (/\ IsExecute("AddMembers") /\ Instantiated
     /\ last.sender \in Range(PreAdmins)
     /\ ~(Range(last.msg.admins) \subseteq ValidAddrs))
    => /\ last.kind = "Err"
       /\ last.err = InvalidAddr
       /\ ~last.committed
       /\ last.store.admins = last.pre.admins
       /\ ADMINS = last.pre.admins

\* C10 witness: an administrator's payload with a valid identity, not yet in AdminSet,
\* before an invalid one was refused.
C10_Witness ==
    /\ IsExecute("AddMembers") /\ Instantiated
    /\ last.sender \in Range(PreAdmins)
    /\ Len(last.msg.admins) = 2
    /\ last.msg.admins[1] \in ValidAddrs \ Range(PreAdmins)
    /\ last.msg.admins[2] \notin ValidAddrs
    /\ last.kind = "Err"

\* C11: instantiate with a list in which some identity fails validation fails with the
\* validation error and persists nothing: neither AdminSet nor DonationDenom exists
\* afterwards.
C11_InstantiateInvalid ==
    (last.entry = "instantiate" /\ ~(Range(last.msg.admins) \subseteq ValidAddrs))
    => /\ last.kind = "Err"
       /\ last.err = InvalidAddr
       /\ ~last.committed
       /\ last.store = [admins |-> Absent, denom |-> Absent]
       /\ ADMINS = Absent
       /\ DONATION_DENOM = Absent

\* C11 witness: an instantiate whose list has a valid identity before an invalid one
\* was refused.
C11_Witness ==
    /\ last.entry = "instantiate"
    /\ Len(last.msg.admins) = 2
    /\ last.msg.admins[1] \in ValidAddrs
    /\ last.msg.admins[2] \notin ValidAddrs
    /\ last.kind = "Err"

\* C12: DonationDenom is the string given at instantiation and no later AddMembers,
\* Leave, Donate, Greet or AdminsList call, successful or failed, changes it.
C12_DenomImmutable ==
    [][/\ DONATION_DENOM # Absent => DONATION_DENOM' = DONATION_DENOM
       /\ (last' # last /\ last'.entry = "instantiate" /\ last'.committed)
            => DONATION_DENOM' = Present(last'.msg.donation_denom)]_vars

\* C12 witness: on a contract whose denomination is "atom", a Donate was carried out
\* and AdminsList answered after it.
C12_Witness ==
    /\ DONATION_DENOM = Present("atom")
    /\ IsExecute("Donate") /\ last.committed
    /\ answer.type = "AdminsList"
    /\ Len(ADMINS[1]) = 1

\* C13: the Greet query returns the message "Hello World" in every state, also on a store
\* that was never instantiated; it never fails and writes no state.
C13_Greet ==
    [][answer'.type = "Greet"
         => /\ answer'.ok
            /\ answer'.val = <<"message", "Hello World">>
            /\ answer' # answer => UNCHANGED <<ADMINS, DONATION_DENOM, balances>>]_vars

\* C13 witness: Greet was answered on a store that was never instantiated.
C13_Witness ==
    /\ answer.type = "Greet" /\ answer.ok
    /\ ADMINS = Absent /\ DONATION_DENOM = Absent

\* the balances of a set of accounts in a denomination, added up
RECURSIVE Total(_, _, _)
Total(bal, S, d) ==
    IF S = {} THEN 0
    ELSE LET a == CHOOSE x \in S : TRUE
         IN bal[a][d] + Total(bal, S \ {a}, d)

\* C14: donations are conserved: what a donor attaches to a Donate that is carried out
\* ends in the administrators' balances or in the contract's; the contract's balance is
\* the sum of the remainders A mod K of the donations carried out so far, so it is never
\* negative and no call lowers it.
C14_Conservation ==
    /\ \A d \in Denoms :
          /\ balances[Contract][d] = retained[d]
          /\ balances[Contract][d] >= 0
          /\ Total(balances, Accounts, d) = Total(InitBalances, Accounts, d)
          /\ last.entry = "execute"
               => balances[Contract][d] >= last.pre.balances[Contract][d]
    /\ (IsExecute("Donate") /\ last.committed)
       => LET A == last.funds[1].amount
              paid == [a \in Accounts |->
                         [d \in Denoms |->
                            Gain(a, d) + (IF a = last.sender /\ d = PreDenom THEN A ELSE 0)]]
          IN /\ Total(paid, Range(PreAdmins) \cup {Contract}, PreDenom) = A
             /\ \A a \in Accounts \ (Range(PreAdmins) \cup {Contract}) : paid[a][PreDenom] = 0
             /\ \A a \in Accounts : paid[a][PreDenom] >= 0

\* C14 witness: a second donation with a remainder was carried out: the contract held
\* a remainder before it and holds 3 after it.
C14_Witness ==
    /\ IsExecute("Donate") /\ last.committed
    /\ last.pre.balances[Contract][PreDenom] > 0
    /\ balances[Contract][PreDenom] = 3
    /\ retained[PreDenom] = 3

\* C15: every element of AdminSet, in every reachable state, is an identity that passed
\* the host's validation, at instantiation or in the AddMembers call that appended it.
C15_AllValidated ==
    /\ ADMINS # Absent => \A i \in 1..Len(ADMINS[1]) : addr_validate(ADMINS[1][i]).ok
    /\ (last.entry = "instantiate" /\ last.committed)
       => \A i \in 1..Len(ADMINS[1]) : addr_validate(last.msg.admins[i]) = Ok(ADMINS[1][i])
    /\ (IsExecute("AddMembers") /\ last.committed)
       => \A i \in 1..Len(last.msg.admins) :
             addr_validate(last.msg.admins[i]) = Ok(ADMINS[1][Len(PreAdmins) + i])

\* C15 witness: AdminSet holds identities stored at instantiation and one appended by a
\* later AddMembers.
C15_Witness ==
    /\ IsExecute("AddMembers") /\ last.committed
    /\ Len(PreAdmins) = 2
    /\ Len(last.msg.admins) = 1
    /\ Len(ADMINS[1]) = 3

\* C16: once instantiation has succeeded AdminSet exists in every later state, possibly
\* as the empty list, so AdminsList never fails then and returns the stored list as it
\* is; before instantiation AdminsList fails.
C16_AdminsExist ==
    [][/\ ADMINS # Absent => ADMINS' # Absent
       /\ (last' # last /\ last'.entry = "instantiate" /\ last'.kind = "Ok")
            => ADMINS' # Absent
       /\ answer'.type = "AdminsList"
            => IF ADMINS' # Absent
               THEN answer'.ok /\ answer'.val = <<"admins", ADMINS'[1]>>
               ELSE ~answer'.ok /\ answer'.err = NotFound]_vars

\* C16 witness: AdminsList answered with the empty list after the last administrator
\* left.
C16_Witness ==
    /\ IsExecute("Leave") /\ last.committed
    /\ Len(PreAdmins) > 0
    /\ ADMINS = Present(<<>>)
    /\ answer.type = "AdminsList" /\ answer.ok /\ answer.val = <<"admins", <<>> >>

\* C17: membership of AdminSet changes in two ways only: an absent identity x becomes
\* present only by a successful AddMembers whose caller was in AdminSet right before the
\* call and whose payload holds x; a present identity x becomes absent only by a Leave
\* whose caller is x.  No administrator removes another.
C17_MembershipChanges ==
    [][ADMINS # Absent
         => /\ ADMINS' # Absent
            /\ \A x \in RawAddrs :
                  /\ (x \notin Range(ADMINS[1]) /\ x \in Range(ADMINS'[1]))
                       => /\ last' # last
                          /\ last'.entry = "execute" /\ last'.msg.type = "AddMembers"
                          /\ last'.kind = "Ok"
                          /\ last'.sender \in Range(ADMINS[1])
                          /\ x \in Range(last'.msg.admins)
                  /\ (x \in Range(ADMINS[1]) /\ x \notin Range(ADMINS'[1]))
                       => /\ last' # last
                          /\ last'.entry = "execute" /\ last'.msg.type = "Leave"
                          /\ last'.sender = x]_vars

\* C17 witness: an administrator left an AdminSet that held another administrator too,
\* and the other one is still there.
C17_Witness ==
    /\ IsExecute("Leave") /\ last.committed
    /\ last.sender \in Range(PreAdmins)
    /\ Cardinality(Range(PreAdmins)) = 2
    /\ Cardinality(Range(ADMINS[1])) = 1

\* C18: an empty AdminSet is absorbing: once AdminSet is the empty list, every AddMembers
\* fails with Unauthorized and AdminSet is the empty list in every later state.
C18_EmptyAbsorbing ==
    [][ADMINS = Present(<<>>)
         => /\ ADMINS' = Present(<<>>)
            /\ (last' # last /\ last'.entry = "execute" /\ last'.msg.type = "AddMembers")
                 => /\ last'.kind = "Err"
                    /\ last'.err = <<"Unauthorized", last'.sender>>]_vars

\* C18 witness: on an instantiated contract whose AdminSet is the empty list, an
\* AddMembers with one valid identity was refused as Unauthorized and the list is
\* still empty.
C18_Witness ==
    /\ IsExecute("AddMembers") /\ Instantiated
    /\ PreAdmins = <<>>
    /\ Len(last.msg.admins) = 1 /\ last.msg.admins[1] \in ValidAddrs
    /\ last.err = <<"Unauthorized", last.sender>>
    /\ ADMINS = Present(<<>>)

\* C19: after a Leave by c, an AddMembers called by c fails with Unauthorized and c
\* is not in AdminSet, until an AddMembers by an identity then in AdminSet succeeds
\* with c in its payload; however many entries of c the Leave removed.
C19_LeaveRevokes ==
    [][\A c \in ValidAddrs :
         c \in left
           => /\ c \notin Range(ADMINS[1])
              /\ (/\ last' # last /\ last'.entry = "execute"
                  /\ last'.msg.type = "AddMembers" /\ last'.sender = c)
                   => /\ last'.kind = "Err"
                      /\ last'.err = <<"Unauthorized", c>>
                      /\ ~last'.committed
              /\ c \notin left'
                   => /\ last' # last /\ last'.entry = "execute"
                      /\ last'.msg.type = "AddMembers" /\ last'.kind = "Ok"
                      /\ last'.sender \in Range(ADMINS[1])
                      /\ c \in Range(last'.msg.admins)]_vars

\* C19 witness: the caller left earlier and was not added again, and its AddMembers
\* naming itself, made while other administrators remain, was refused as Unauthorized.
C19_Witness ==
    /\ IsExecute("AddMembers")
    /\ last.sender \in left
    /\ PreAdmins # <<>>
    /\ last.msg.admins = <<last.sender>>
    /\ last.err = <<"Unauthorized", last.sender>>
    /\ ADMINS = Present(PreAdmins)

\* C20: a Donate, carried out or not, and the Greet and AdminsList queries leave
\* AdminSet as it was; AdminSet differs after a step only when the step is an
\* instantiate, an AddMembers that returned success, or a Leave.
C20_AdminSetFrame ==
    [][/\ (last' # last /\ last'.entry = "execute" /\ last'.msg.type = "Donate")
            => /\ ADMINS' = ADMINS
               /\ last'.store.admins = ADMINS
       /\ (answer' # answer /\ answer'.type \in {"Greet", "AdminsList"})
            => ADMINS' = ADMINS
       /\ ADMINS' # ADMINS
            => /\ last' # last
               /\ \/ last'.entry = "instantiate"
                  \/ /\ last'.entry = "execute" /\ last'.msg.type = "AddMembers"
                     /\ last'.kind = "Ok"
                  \/ last'.entry = "execute" /\ last'.msg.type = "Leave"]_vars

\* C20 witness: a Donate was carried out on a list with a repeated identity, the
\* AdminsList query asked after it returned that list, and the list is as before.
C20_Witness ==
    /\ IsExecute("Donate") /\ last.committed
    /\ Cardinality(Range(PreAdmins)) < Len(PreAdmins)
    /\ answer.type = "AdminsList" /\ answer.ok
    /\ answer.val = <<"admins", PreAdmins>>
    /\ ADMINS = Present(PreAdmins)

====
